---- MODULE Spec2Model ----
(***************************************************************************)
(* Model of src/main.py: the place catalog loader (load_places), the road  *)
(* graph loader (load_graph), the shortest-path engine (dijkstra), the     *)
(* path reconstructor (reconstruct_path), the edge lookup (find_edge) and  *)
(* the query flow of main.                                                 *)
(*                                                                         *)
(* A text line is modelled after the bounded split as the sequence of its  *)
(* fields; a field is a token [kind, val]: kind "int" is a decimal integer *)
(* literal, "num" a decimal real literal that is not an integer literal,   *)
(* "text" any other non-empty text, "empty" the empty field.  A blank line *)
(* is the empty sequence.  Distances are naturals (exact as floats); the    *)
(* float values inf and nan, which float() also accepts, are not modelled. *)
(*                                                                         *)
(* Spec is main from load_graph on, the two identifiers get_place_id       *)
(* resolves being any two identifiers; SpecLoad is load_graph alone over   *)
(* files that vary the description; SpecPlaces is load_places alone;       *)
(* SpecLive is Spec with the fairness of a sequential program.             *)
(***************************************************************************)
EXTENDS Integers, Sequences, FiniteSets, TLC

\* ---------------------------------------------------------------- bounds
\* Lines read from the roads file, lines read from the places file, and the
\* largest place identifier of the places file.
MaxRoads == 3
MaxPlaces == 3
MaxPlaceId == 2

\* The identifiers, distances and descriptions the road records draw from.
NodeIds == {1, 2, 3}
Weights == {0, 1}
Descriptions == {"a", "b"}
PlaceIds == 1..MaxPlaceId
PlaceNames == {"A", "B"}

\* ---------------------------------------------------------------- values
None == [tag |-> "None"]
Some(x) == [tag |-> "Some", val |-> x]
EmptyMap == [x \in {} |-> 0]
Put(f, k, v) == [x \in (DOMAIN f) \cup {k} |-> IF x = k THEN v ELSE f[x]]

IntTok(i) == [kind |-> "int", val |-> i]
NumTok(i) == [kind |-> "num", val |-> i]
TextTok(s) == [kind |-> "text", text |-> s]
EmptyTok == [kind |-> "empty"]

\* int(s): an integer literal parses, anything else raises ValueError.
ParseInt(tok) == IF tok.kind = "int" THEN Some(tok.val) ELSE None

\* float(s): an integer or real literal parses, anything else raises.
ParseFloat(tok) == IF tok.kind \in {"int", "num"} THEN Some(tok.val) ELSE None

VARIABLES
    pc,             \* position of main
    line,           \* load_graph: raw_line, as its fields
    adj,            \* load_graph: the local graph under construction
    lineCount,      \* load_graph: lines read so far
    graph,          \* main: graph (None until load_graph returned)
    outcome,        \* main: which message ended the run
    source, target, \* dijkstra/reconstruct_path arguments (0: not yet asked)
    dist, prev, heap,
    expanded,       \* dijkstra: the <<node, distance>> pairs whose for-loop ran
    route,          \* main: path (None until reconstruct_path returned)
    path, current,  \* reconstruct_path locals
    index, total_distance, warned,
    placePc, placeFile, name_to_id, id_to_name

vars == <<pc, line, adj, lineCount, graph, outcome, source, target, dist, prev,
          heap, expanded, route, path, current, index, total_distance, warned,
          placePc, placeFile, name_to_id, id_to_name>>

roadVars == <<pc, line, adj, lineCount, graph, outcome, source, target, dist,
              prev, heap, expanded, route, path, current, index,
              total_distance, warned>>

placeVars == <<placePc, placeFile, name_to_id, id_to_name>>

loadVars == <<line, adj, lineCount, graph>>
queryVars == <<source, target>>
engineVars == <<dist, prev, heap, expanded>>
walkVars == <<route, path, current>>
renderVars == <<index, total_distance, warned>>

Init ==
    /\ pc = "load_graph"
    /\ line = <<>>
    /\ adj = EmptyMap
    /\ lineCount = 0
    /\ graph = None
    /\ outcome = "running"
    /\ source = 0
    /\ target = 0
    /\ dist = EmptyMap
    /\ prev = EmptyMap
    /\ heap = <<>>
    /\ expanded = <<>>
    /\ route = None
    /\ path = <<>>
    /\ current = 0
    /\ index = 0
    /\ total_distance = 0
    /\ warned = FALSE
    /\ placePc = "load_places"
    /\ placeFile = <<>>
    /\ name_to_id = EmptyMap
    /\ id_to_name = EmptyMap

\* ------------------------------------------------------------ load_graph
\* The lines a roads file may hold: well-formed records, the blank line, and
\* one line of each malformed shape.
WellFormedRoadLines(descriptions) ==
    { <<IntTok(l), IntTok(r), IntTok(w), TextTok(d)>> :
        l \in NodeIds, r \in NodeIds, w \in Weights, d \in descriptions }

MalformedRoadLines ==
    { <<IntTok(1), IntTok(2), IntTok(1)>>,
      <<TextTok("abc"), IntTok(2), IntTok(1), TextTok("a")>>,
      <<IntTok(1), NumTok(2), IntTok(1), TextTok("a")>>,
      <<IntTok(1), IntTok(2), TextTok("far"), TextTok("a")>>,
      <<IntTok(1), IntTok(2), IntTok(-1), TextTok("a")>> }

\* The roads files of the loader specification vary the description; the
\* files of the full run carry one description.
RoadLines == WellFormedRoadLines(Descriptions) \cup MalformedRoadLines \cup {<<>>}
QueryRoadLines == WellFormedRoadLines({"a"}) \cup MalformedRoadLines \cup {<<>>}

\* graph.setdefault(key, []).append(entry)
AppendEntry(g, key, entry) ==
    Put(g, key, Append(IF key \in DOMAIN g THEN g[key] ELSE <<>>, entry))

\* Mutant of AddRoad: only the left-to-right entry is stored.
AddRoad_OneDirection(g, left_id, right_id, miles, description) ==
    AppendEntry(g, left_id, <<right_id, miles, description>>)

\* Lines 124-125: both directions, left endpoint first.
AddRoad(g, left_id, right_id, miles, description) ==
    AppendEntry(AppendEntry(g, left_id, <<right_id, miles, description>>),
                right_id, <<left_id, miles, description>>)

\* Mutant of ParseRoadLine: the negative-distance test is missing.
ParseRoadLine_NoNegativeCheck(l) ==
    IF Len(l) = 0 THEN [kind |-> "skip"]
    ELSE IF Len(l) # 4 THEN [kind |-> "raise"]
    ELSE IF ParseInt(l[1]) = None \/ ParseInt(l[2]) = None THEN [kind |-> "raise"]
    ELSE IF ParseFloat(l[3]) = None THEN [kind |-> "raise"]
    ELSE [kind |-> "edge", left_id |-> ParseInt(l[1]).val,
          right_id |-> ParseInt(l[2]).val, miles |-> ParseFloat(l[3]).val,
          description |-> l[4].text]

\* Lines 89-121: what one line makes the loop body do:
\* "skip" (blank), "raise" (ValueError) or "edge".
ParseRoadLine(l) ==
    IF Len(l) = 0 THEN [kind |-> "skip"]
    ELSE IF Len(l) # 4 THEN [kind |-> "raise"]
    ELSE IF ParseInt(l[1]) = None \/ ParseInt(l[2]) = None THEN [kind |-> "raise"]
    ELSE IF ParseFloat(l[3]) = None THEN [kind |-> "raise"]
    ELSE IF ParseFloat(l[3]).val < 0 THEN [kind |-> "raise"]
    ELSE [kind |-> "edge", left_id |-> ParseInt(l[1]).val,
          right_id |-> ParseInt(l[2]).val, miles |-> ParseFloat(l[3]).val,
          description |-> l[4].text]

ReadRoadLine(l) ==
    /\ pc = "load_graph"
    /\ lineCount < MaxRoads
    /\ line' = l
    /\ lineCount' = lineCount + 1

\* A blank line: continue.
LoadGraphSkip(lines) ==
    \E l \in lines :
        /\ ReadRoadLine(l)
        /\ ParseRoadLine(l).kind = "skip"
        /\ UNCHANGED <<pc, adj, graph, outcome>>
        /\ UNCHANGED <<queryVars, engineVars, walkVars, renderVars, placeVars>>

\* A well-formed record: two directed entries are appended.
LoadGraphEdge(lines) ==
    \E l \in lines :
        /\ ReadRoadLine(l)
        /\ ParseRoadLine(l).kind = "edge"
        /\ LET e == ParseRoadLine(l)
           IN adj' = AddRoad(adj, e.left_id, e.right_id, e.miles, e.description)
        /\ UNCHANGED <<pc, graph, outcome>>
        /\ UNCHANGED <<queryVars, engineVars, walkVars, renderVars, placeVars>>

\* A malformed line: ValueError leaves load_graph; main (lines 245-247)
\* prints the failure and returns, its graph never assigned.
LoadGraphRaise(lines) ==
    \E l \in lines :
        /\ ReadRoadLine(l)
        /\ ParseRoadLine(l).kind = "raise"
        /\ pc' = "done"
        /\ outcome' = "Failed to load roads"
        /\ UNCHANGED <<adj, graph>>
        /\ UNCHANGED <<queryVars, engineVars, walkVars, renderVars, placeVars>>

\* End of file: load_graph returns its graph; main (lines 249-262) stops on
\* an empty graph and otherwise goes on to ask for the two places.
LoadGraphReturn ==
    /\ pc = "load_graph"
    /\ graph' = Some(adj)
    /\ adj' = EmptyMap
    /\ line' = <<>>
    /\ IF DOMAIN adj = {}
       THEN pc' = "done" /\ outcome' = "Graph appears to be empty"
       ELSE pc' = "get_place_id" /\ UNCHANGED outcome
    /\ lineCount' = 0
    /\ UNCHANGED <<queryVars, engineVars, walkVars, renderVars, placeVars>>

\* -------------------------------------------------------------- dijkstra
\* The heap holds <<distance, node>> pairs; heappop returns the least pair
\* in tuple order, so the heap is kept as the sorted sequence of its pairs.
PairLess(a, b) == a[1] < b[1] \/ (a[1] = b[1] /\ a[2] < b[2])

RECURSIVE heappush(_, _)
heappush(h, item) ==
    IF h = <<>> THEN <<item>>
    ELSE IF PairLess(item, Head(h)) THEN <<item>> \o h
    ELSE <<Head(h)>> \o heappush(Tail(h), item)

\* Mutant of IsStale: outdated heap entries are never skipped.
IsStale_Never(d, current_dist, u) == FALSE

\* current_dist > dist.get(u, float("inf"))
IsStale(d, current_dist, u) == u \in DOMAIN d /\ current_dist > d[u]

\* Mutant of Improves: only a node without a distance is ever relaxed.
Improves_FirstVisitOnly(d, new_dist, v) == v \notin DOMAIN d

\* new_dist < dist.get(v, float("inf"))
Improves(d, new_dist, v) == v \notin DOMAIN d \/ new_dist < d[v]

\* Lines 174-178: one neighbor entry <<v, weight, description>> of u.
RelaxEdge(st, u, current_dist, entry) ==
    LET v == entry[1]
        new_dist == current_dist + entry[2]
    IN IF Improves(st.dist, new_dist, v)
       THEN [dist |-> Put(st.dist, v, new_dist),
             prev |-> Put(st.prev, v, u),
             heap |-> heappush(st.heap, <<new_dist, v>>)]
       ELSE st

\* Line 173: the for-loop over graph.get(u, []), in stored order.
RECURSIVE RelaxAll(_, _, _, _, _)
RelaxAll(st, u, current_dist, neighbors, i) ==
    IF i > Len(neighbors) THEN st
    ELSE RelaxAll(RelaxEdge(st, u, current_dist, neighbors[i]),
                  u, current_dist, neighbors, i + 1)

Neighbors(g, u) == IF u \in DOMAIN g THEN g[u] ELSE <<>>

\* main lines 266-281 with dijkstra lines 157-161: the two names resolve to
\* identifiers and the search starts.
GetPlaceIds ==
    /\ pc = "get_place_id"
    /\ \E s \in NodeIds, t \in NodeIds :
        /\ source' = s
        /\ target' = t
        /\ dist' = Put(EmptyMap, s, 0)
        /\ heap' = <<<<0, s>>>>
    /\ prev' = EmptyMap
    /\ expanded' = <<>>
    /\ pc' = "dijkstra"
    /\ UNCHANGED <<outcome, loadVars, walkVars, renderVars, placeVars>>

\* main lines 269-271: a name is empty or unknown.
GetPlaceIdFails ==
    /\ pc = "get_place_id"
    /\ pc' = "done"
    /\ outcome' = "Could not resolve place name"
    /\ UNCHANGED <<loadVars, queryVars, engineVars, walkVars, renderVars, placeVars>>

\* Lines 164-168: the popped entry is outdated.
DijkstraSkipStale ==
    /\ pc = "dijkstra"
    /\ heap # <<>>
    /\ IsStale(dist, Head(heap)[1], Head(heap)[2])
    /\ heap' = Tail(heap)
    /\ UNCHANGED <<pc, outcome, dist, prev, expanded>>
    /\ UNCHANGED <<loadVars, queryVars, walkVars, renderVars, placeVars>>

\* Lines 164-171: the popped node is the target; break and return.
DijkstraBreak ==
    /\ pc = "dijkstra"
    /\ heap # <<>>
    /\ ~IsStale(dist, Head(heap)[1], Head(heap)[2])
    /\ Head(heap)[2] = target
    /\ heap' = Tail(heap)
    /\ pc' = "returned"
    /\ UNCHANGED <<outcome, dist, prev, expanded>>
    /\ UNCHANGED <<loadVars, queryVars, walkVars, renderVars, placeVars>>

\* Lines 164-178: the popped node is expanded.
DijkstraExpand ==
    /\ pc = "dijkstra"
    /\ heap # <<>>
    /\ LET current_dist == Head(heap)[1]
           u == Head(heap)[2]
           st == RelaxAll([dist |-> dist, prev |-> prev, heap |-> Tail(heap)],
                          u, current_dist, Neighbors(graph.val, u), 1)
       IN /\ ~IsStale(dist, current_dist, u)
          /\ u # target
          /\ dist' = st.dist
          /\ prev' = st.prev
          /\ heap' = st.heap
          /\ expanded' = Append(expanded, <<u, current_dist>>)
    /\ UNCHANGED <<pc, outcome>>
    /\ UNCHANGED <<loadVars, queryVars, walkVars, renderVars, placeVars>>

\* Lines 163, 180: the heap is empty; return.
DijkstraExhausted ==
    /\ pc = "dijkstra"
    /\ heap = <<>>
    /\ pc' = "returned"
    /\ UNCHANGED <<outcome, engineVars>>
    /\ UNCHANGED <<loadVars, queryVars, walkVars, renderVars, placeVars>>

\* ------------------------------------------------------ reconstruct_path
RECURSIVE Reverse(_)
Reverse(s) == IF s = <<>> THEN <<>> ELSE Append(Reverse(Tail(s)), Head(s))

\* Mutant of ReconstructEnter: a target without predecessor is answered with
\* the trivial path instead of None.
ReconstructEnter_MissingIsTrivial(p, s, t) ==
    IF s = t \/ t \notin DOMAIN p THEN [done |-> TRUE, result |-> Some(<<t>>)]
    ELSE [done |-> FALSE, path |-> <<t>>, current |-> t]

\* Mutant of ReconstructEnter: the source = target shortcut is missing.
ReconstructEnter_NoShortcut(p, s, t) ==
    IF t \notin DOMAIN p THEN [done |-> TRUE, result |-> None]
    ELSE [done |-> FALSE, path |-> <<t>>, current |-> t]

\* Lines 189-197: the two early returns, or the start of the backward walk.
ReconstructEnter(p, s, t) ==
    IF s = t THEN [done |-> TRUE, result |-> Some(<<s>>)]
    ELSE IF t \notin DOMAIN p THEN [done |-> TRUE, result |-> None]
    ELSE [done |-> FALSE, path |-> <<t>>, current |-> t]

\* Mutant of WalkStep: the path is returned target-first, not reversed.
WalkStep_NoReverse(p, s, w) ==
    IF w.current = s THEN [done |-> TRUE, result |-> Some(w.path)]
    ELSE IF w.current \notin DOMAIN p THEN [done |-> TRUE, result |-> None]
    ELSE [done |-> FALSE, path |-> Append(w.path, p[w.current]),
          current |-> p[w.current]]

\* Mutant of WalkStep: the loop body does not move to the predecessor.
WalkStep_NoAdvance(p, s, w) ==
    IF w.current = s THEN [done |-> TRUE, result |-> Some(Reverse(w.path))]
    ELSE [done |-> FALSE, path |-> w.path, current |-> w.current]

\* Lines 200-208: the loop test and one pass of the while-loop body, from the
\* locals w = [path, current].
WalkStep(p, s, w) ==
    IF w.current = s THEN [done |-> TRUE, result |-> Some(Reverse(w.path))]
    ELSE IF w.current \notin DOMAIN p THEN [done |-> TRUE, result |-> None]
    ELSE [done |-> FALSE, path |-> Append(w.path, p[w.current]),
          current |-> p[w.current]]

RECURSIVE Walk(_, _, _)
Walk(p, s, w) == IF w.done THEN w.result ELSE Walk(p, s, WalkStep(p, s, w))

\* reconstruct_path as a function of its arguments.
reconstruct_path(p, s, t) == Walk(p, s, ReconstructEnter(p, s, t))

\* main lines 291-299 once reconstruct_path has returned r: no path ends
\* the run, a path starts the rendering loop.
PathReturned(r) ==
    /\ route' = r
    /\ path' = <<>>
    /\ current' = 0
    /\ IF r = None
       THEN pc' = "done" /\ outcome' = "no path could be reconstructed"
       ELSE pc' = "render" /\ UNCHANGED outcome

\* main lines 282-289: the target has no distance.
MainNoRoute ==
    /\ pc = "returned"
    /\ target \notin DOMAIN dist
    /\ pc' = "done"
    /\ outcome' = "No route found"
    /\ UNCHANGED <<loadVars, queryVars, engineVars, walkVars, renderVars, placeVars>>

\* main line 291 and reconstruct_path lines 189-197.
ReconstructStart ==
    /\ pc = "returned"
    /\ target \in DOMAIN dist
    /\ LET w == ReconstructEnter(prev, source, target)
       IN IF w.done
          THEN PathReturned(w.result)
          ELSE /\ path' = w.path
               /\ current' = w.current
               /\ pc' = "reconstruct_path"
               /\ UNCHANGED <<outcome, route>>
    /\ UNCHANGED <<loadVars, queryVars, engineVars, renderVars, placeVars>>

\* reconstruct_path lines 200-208: one pass of the backward walk.
ReconstructStep ==
    /\ pc = "reconstruct_path"
    /\ LET w == WalkStep(prev, source, [path |-> path, current |-> current])
       IN IF w.done
          THEN PathReturned(w.result)
          ELSE /\ path' = w.path
               /\ current' = w.current
               /\ UNCHANGED <<pc, outcome, route>>
    /\ UNCHANGED <<loadVars, queryVars, engineVars, renderVars, placeVars>>

\* ------------------------------------------------------------- find_edge
RECURSIVE ScanEdges(_, _, _)
ScanEdges(neighbors, to_id, i) ==
    IF i > Len(neighbors) THEN None
    ELSE IF neighbors[i][1] = to_id
         THEN Some(<<neighbors[i][2], neighbors[i][3]>>)
         ELSE ScanEdges(neighbors, to_id, i + 1)

find_edge(g, from_id, to_id) == ScanEdges(Neighbors(g, from_id), to_id, 1)

\* main lines 300-322: one pass of the rendering loop (index counts from 0).
RenderStep ==
    /\ pc = "render"
    /\ index < Len(route.val) - 1
    /\ LET from_id == route.val[index + 1]
           to_id == route.val[index + 2]
           edge_info == find_edge(graph.val, from_id, to_id)
       IN IF edge_info = None
          THEN warned' = TRUE /\ UNCHANGED total_distance
          ELSE total_distance' = total_distance + edge_info.val[1]
               /\ UNCHANGED warned
    /\ index' = index + 1
    /\ UNCHANGED <<pc, outcome>>
    /\ UNCHANGED <<loadVars, queryVars, engineVars, walkVars, placeVars>>

\* main lines 324-330: the loop is over; the total is printed.
RenderDone ==
    /\ pc = "render"
    /\ index >= Len(route.val) - 1
    /\ pc' = "done"
    /\ outcome' = "It takes"
    /\ UNCHANGED <<loadVars, queryVars, engineVars, walkVars, renderVars, placeVars>>

Next ==
    \/ LoadGraphSkip(QueryRoadLines)
    \/ LoadGraphEdge(QueryRoadLines)
    \/ LoadGraphRaise(QueryRoadLines)
    \/ LoadGraphReturn
    \/ GetPlaceIds
    \/ GetPlaceIdFails
    \/ DijkstraSkipStale
    \/ DijkstraBreak
    \/ DijkstraExpand
    \/ DijkstraExhausted
    \/ MainNoRoute
    \/ ReconstructStart
    \/ ReconstructStep
    \/ RenderStep
    \/ RenderDone

Spec == Init /\ [][Next]_vars

\* The loader alone, over files that vary the description.
NextLoad ==
    \/ LoadGraphSkip(RoadLines)
    \/ LoadGraphEdge(RoadLines)
    \/ LoadGraphRaise(RoadLines)
    \/ LoadGraphReturn

SpecLoad == Init /\ [][NextLoad]_vars

\* ----------------------------------------------------------- load_places
WellFormedPlaceLines ==
    { <<IntTok(i), n>> :
        i \in PlaceIds, n \in {TextTok(x) : x \in PlaceNames} \cup {EmptyTok} }

MalformedPlaceLines ==
    { <<IntTok(1)>>,
      <<EmptyTok, TextTok("A")>>,
      <<TextTok("abc"), TextTok("A")>> }

PlaceLines == WellFormedPlaceLines \cup MalformedPlaceLines \cup {<<>>}

\* Lines 33-62: what one line makes the loop body do: "skip" (blank),
\* "raise" (ValueError) or "place"; an empty name becomes "null".
ParsePlaceLine(l) ==
    IF Len(l) = 0 THEN [kind |-> "skip"]
    ELSE IF Len(l) # 2 THEN [kind |-> "raise"]
    ELSE IF l[1].kind = "empty" THEN [kind |-> "raise"]
    ELSE IF ParseInt(l[1]) = None THEN [kind |-> "raise"]
    ELSE [kind |-> "place", place_id |-> ParseInt(l[1]).val,
          place_name |-> IF l[2].kind = "empty" THEN "null" ELSE l[2].text]

\* Lines 65-66: if place_id not in id_to_name: id_to_name[place_id] = name
KeepFirstId(m, place_id, place_name) ==
    IF place_id \notin DOMAIN m THEN Put(m, place_id, place_name) ELSE m

\* Mutant of SetDefault: a later record overwrites the name's identifier.
SetDefault_Overwrite(m, place_name, place_id) == Put(m, place_name, place_id)

\* Line 70: name_to_id.setdefault(place_name, place_id)
SetDefault(m, place_name, place_id) ==
    IF place_name \in DOMAIN m THEN m ELSE Put(m, place_name, place_id)

ReadPlaceLine(l) ==
    /\ placePc = "load_places"
    /\ Len(placeFile) < MaxPlaces
    /\ placeFile' = Append(placeFile, l)

\* A blank line: continue.
LoadPlacesSkip ==
    \E l \in PlaceLines :
        /\ ReadPlaceLine(l)
        /\ ParsePlaceLine(l).kind = "skip"
        /\ UNCHANGED <<placePc, name_to_id, id_to_name, roadVars>>

\* A well-formed record: both dictionaries take it, each by its own rule.
LoadPlacesRecord ==
    \E l \in PlaceLines :
        /\ ReadPlaceLine(l)
        /\ ParsePlaceLine(l).kind = "place"
        /\ LET r == ParsePlaceLine(l)
           IN /\ id_to_name' = KeepFirstId(id_to_name, r.place_id, r.place_name)
              /\ name_to_id' = SetDefault(name_to_id, r.place_name, r.place_id)
        /\ UNCHANGED <<placePc, roadVars>>

\* A malformed line: ValueError; main (lines 230-232) prints and returns.
LoadPlacesRaise ==
    \E l \in PlaceLines :
        /\ ReadPlaceLine(l)
        /\ ParsePlaceLine(l).kind = "raise"
        /\ placePc' = "failed"
        /\ name_to_id' = EmptyMap
        /\ id_to_name' = EmptyMap
        /\ UNCHANGED roadVars

\* End of file: load_places returns the two dictionaries.
LoadPlacesReturn ==
    /\ placePc = "load_places"
    /\ placePc' = "returned"
    /\ UNCHANGED <<placeFile, name_to_id, id_to_name, roadVars>>

NextPlaces ==
    \/ LoadPlacesSkip
    \/ LoadPlacesRecord
    \/ LoadPlacesRaise
    \/ LoadPlacesReturn

SpecPlaces == Init /\ [][NextPlaces]_vars

\* ================================================================ claims
\* Reference notions the claims speak of, defined on the loaded graph alone.
SetMin(S) == CHOOSE x \in S : \A y \in S : x <= y
SetMax(S) == CHOOSE x \in S : \A y \in S : x >= y

\* More than any simple path can weigh: stands for "no path".
Far == Cardinality(NodeIds) * SetMax(Weights) + 1

\* The stored directed entries u -> v of g, as positions in u's list.
EntriesTo(g, u, v) ==
    IF u \in DOMAIN g THEN {i \in 1..Len(g[u]) : g[u][i][1] = v} ELSE {}

RECURSIVE PathWeights(_, _, _)
PathWeights(g, D, k) ==
    IF k = 0 THEN D
    ELSE PathWeights(g,
            [v \in NodeIds |->
                SetMin({D[v], Far} \cup
                       UNION {{D[u] + g[u][i][2] : i \in EntriesTo(g, u, v)} :
                                 u \in DOMAIN g})],
            k - 1)

\* The least total weight of a path from s to t in g, Far when there is none.
MinPathWeight(g, s, t) ==
    PathWeights(g, [v \in NodeIds |-> IF v = s THEN 0 ELSE Far],
                Cardinality(NodeIds))[t]

Reachable(g, s, t) == MinPathWeight(g, s, t) < Far

Last(p) == p[Len(p)]

\* C1: when dijkstra has returned and the target is reachable from the
\* source, the distance map holds for the target the least total weight of
\* any source-to-target path, also when the search left the loop early.
C1_TargetDistanceIsShortest ==
    (pc = "returned" /\ Reachable(graph.val, source, target))
        => /\ target \in DOMAIN dist
           /\ dist[target] = MinPathWeight(graph.val, source, target)

\* C1 witness: an early exit at a target whose first distance was improved
\* on, the outdated entry still queued.
C1_Witness ==
    /\ pc = "returned"
    /\ source # target
    /\ target \in DOMAIN dist
    /\ Len(expanded) >= 2
    /\ \E i \in 1..Len(heap) : heap[i][2] = target /\ heap[i][1] > dist[target]

\* C2: when the target is a different identifier with no path from the
\* source, dijkstra returns maps without the target and reconstruct_path on
\* the returned predecessor map gives None.
C2_UnreachableTargetAbsent ==
    (pc = "returned" /\ source # target /\ ~Reachable(graph.val, source, target))
        => /\ target \notin DOMAIN dist
           /\ target \notin DOMAIN prev
           /\ reconstruct_path(prev, source, target) = None

\* C2 witness: source and target are both nodes of the graph, in different
\* components, and the source's component was searched through.
C2_Witness ==
    /\ pc = "returned"
    /\ source # target
    /\ source \in DOMAIN graph.val
    /\ target \in DOMAIN graph.val
    /\ ~Reachable(graph.val, source, target)
    /\ Len(expanded) >= 2

\* C3: with source = target = S, a node of the graph, dijkstra returns
\* distance 0 for S, reconstruct_path returns [S], and main's path is [S].
C3_SourceIsTarget ==
    /\ (pc = "returned" /\ source = target /\ source \in DOMAIN graph.val)
         => /\ source \in DOMAIN dist
            /\ dist[source] = 0
            /\ reconstruct_path(prev, source, target) = Some(<<source>>)
    /\ (pc \in {"render", "done"} /\ source # 0 /\ source = target)
         => route = Some(<<source>>)

\* C3 witness: the run ended for an S with a zero-weight self-loop and
\* a zero-weight road to another node.
C3_Witness ==
    /\ pc = "done"
    /\ source # 0
    /\ source = target
    /\ route = Some(<<source>>)
    /\ \E i \in EntriesTo(graph.val, source, source) : graph.val[source][i][2] = 0
    /\ \E v \in NodeIds \ {source} :
          \E i \in EntriesTo(graph.val, source, v) : graph.val[source][i][2] = 0

\* How often the entry <<v, w, d>> is stored in u's neighbor list.
Count(g, u, entry) ==
    IF u \in DOMAIN g
    THEN Cardinality({i \in 1..Len(g[u]) : g[u][i] = entry})
    ELSE 0

Symmetric(g) ==
    \A u \in NodeIds, v \in NodeIds, w \in Weights, d \in Descriptions :
        u # v => Count(g, u, <<v, w, d>>) = Count(g, v, <<u, w, d>>)

\* C4: after every record load_graph has processed, and in the graph it
\* returns, every entry u -> v (u # v) with weight w and description d is
\* stored exactly as often as its mirror v -> u with the same w and d.
C4_AdjacencySymmetric ==
    /\ Symmetric(adj)
    /\ graph # None => Symmetric(graph.val)

\* C4 witness: a repeated record and a self-loop have been loaded.
C4_Witness ==
    /\ pc = "load_graph"
    /\ \E u \in NodeIds, v \in NodeIds, w \in Weights, d \in Descriptions :
          u # v /\ Count(adj, u, <<v, w, d>>) >= 2
    /\ \E u \in NodeIds : EntriesTo(adj, u, u) # {}

\* A malformed non-blank line in the claim's words: fewer than four fields,
\* a non-integer identifier, a distance that is no number, or a negative one.
IsMalformed(l) ==
    /\ Len(l) > 0
    /\ \/ Len(l) < 4
       \/ l[1].kind # "int"
       \/ l[2].kind # "int"
       \/ l[3].kind \notin {"int", "num"}
       \/ l[3].val < 0

\* C6: once a malformed line has been read, the run has ended with the
\* roads failure, main holds no graph, and no query was or can be accepted.
C6_AllOrNothing ==
    IsMalformed(line)
        => /\ pc = "done"
           /\ outcome = "Failed to load roads"
           /\ graph = None
           /\ source = 0 /\ target = 0
           /\ dist = EmptyMap
           /\ ~ENABLED GetPlaceIds

\* C6 witness: the malformed line came third, after two loaded records.
C6_Witness ==
    /\ IsMalformed(line)
    /\ lineCount = 3
    /\ \E u \in DOMAIN adj : Len(adj[u]) >= 2
    /\ outcome = "Failed to load roads"

\* C7: a path reconstructed for a target other than the source starts at the
\* source, ends at the target, and every consecutive pair is a stored entry
\* of the graph; the missing-edge warning never happens; and a reachable
\* target always gets such a path.
C7_PathFollowsStoredEdges ==
    /\ (route # None /\ source # target)
         => /\ Head(route.val) = source
            /\ Last(route.val) = target
            /\ \A i \in 1..(Len(route.val) - 1) :
                  EntriesTo(graph.val, route.val[i], route.val[i + 1]) # {}
    /\ warned = FALSE
    /\ (pc = "done" /\ source # 0 /\ Reachable(graph.val, source, target))
         => outcome = "It takes" /\ route # None

\* C7 witness: a three-node path has been rendered to its end.
C7_Witness ==
    /\ pc = "done"
    /\ route # None
    /\ Len(route.val) = 3
    /\ index = 2

\* C8: at every point of the dijkstra loop and after it: the source has
\* distance 0 and no predecessor; the predecessor map's keys are the distance
\* map's keys without the source; every v with predecessor u has a stored
\* entry u -> v of weight dist[v] - dist[u]; no node was expanded twice and
\* every expanded node still has the distance it was expanded with.
C8_LoopInvariant ==
    pc \in {"dijkstra", "returned"}
        => /\ source \in DOMAIN dist /\ dist[source] = 0
           /\ source \notin DOMAIN prev
           /\ DOMAIN prev = (DOMAIN dist) \ {source}
           /\ \A v \in DOMAIN prev :
                 /\ prev[v] \in DOMAIN dist
                 /\ \E i \in EntriesTo(graph.val, prev[v], v) :
                       dist[v] = dist[prev[v]] + graph.val[prev[v]][i][2]
           /\ \A i, j \in 1..Len(expanded) :
                 i # j => expanded[i][1] # expanded[j][1]
           /\ \A i \in 1..Len(expanded) :
                 dist[expanded[i][1]] = expanded[i][2]

\* C8 witness: two nodes were expanded and an outdated entry is queued.
C8_Witness ==
    /\ pc = "dijkstra"
    /\ Len(expanded) >= 2
    /\ Cardinality(DOMAIN prev) >= 2
    /\ \E i \in 1..Len(heap) : IsStale(dist, heap[i][1], heap[i][2])

\* C9: the total that the rendering loop has accumulated when it ends equals
\* the distance dijkstra computed for the target.
C9_TotalEqualsShortest ==
    (pc = "done" /\ outcome = "It takes") => total_distance = dist[target]

\* The records of a places file whose lines are all well-formed: the
\* non-blank lines in order, each as identifier and name ("null" for none).
IsBlank(l) == Len(l) = 0
RecordOf(l) ==
    [place_id |-> l[1].val,
     place_name |-> IF l[2].kind = "empty" THEN "null" ELSE l[2].text]
RECURSIVE RecordsOf(_)
RecordsOf(file) ==
    IF file = <<>> THEN <<>>
    ELSE IF IsBlank(Head(file)) THEN RecordsOf(Tail(file))
    ELSE <<RecordOf(Head(file))>> \o RecordsOf(Tail(file))

\* Positions of the records whose identifier no earlier record carries.
FirstOfId(recs) ==
    {k \in 1..Len(recs) : \A j \in 1..(k - 1) : recs[j].place_id # recs[k].place_id}

\* identifier -> name of the first record carrying the identifier.
RefIdToName(recs) ==
    [i \in {recs[k].place_id : k \in 1..Len(recs)} |->
        recs[SetMin({k \in 1..Len(recs) : recs[k].place_id = i})].place_name]

\* name -> identifier of the first record, among those at positions K,
\* carrying the name.
RefNameToId(recs, K) ==
    [n \in {recs[k].place_name : k \in K} |->
        recs[SetMin({k \in K : recs[k].place_name = n})].place_id]

\* C5 as claimed: the returned catalog is the one in which a record whose
\* identifier was seen before contributes to neither mapping, so that every
\* name maps to an identifier whose name it is.
C5_DuplicateIdRecordDiscarded ==
    placePc = "returned"
        => LET recs == RecordsOf(placeFile)
           IN /\ id_to_name = RefIdToName(recs)
              /\ name_to_id = RefNameToId(recs, FirstOfId(recs))
              /\ \A n \in DOMAIN name_to_id : id_to_name[name_to_id[n]] = n

\* C5 as amended: identifier->name holds each identifier with the name of the
\* first record carrying it; name->identifier holds each name with the
\* identifier of the first record carrying that name among ALL records, those
\* with an already seen identifier included; so identifier->name of a name's
\* identifier is that name whenever the first record carrying the name is
\* also the first record carrying its identifier.
C5_EachMappingFirstSeenWins ==
    placePc = "returned"
        => LET recs == RecordsOf(placeFile)
           IN /\ id_to_name = RefIdToName(recs)
              /\ name_to_id = RefNameToId(recs, 1..Len(recs))
              /\ \A n \in DOMAIN name_to_id :
                    SetMin({k \in 1..Len(recs) : recs[k].place_name = n})
                        \in FirstOfId(recs)
                    => id_to_name[name_to_id[n]] = n

\* C5 witness: a returned catalog built from a file in which an identifier
\* repeats with a new name and a name repeats with a new identifier.
C5_Witness ==
    /\ placePc = "returned"
    /\ LET recs == RecordsOf(placeFile)
       IN /\ \E j, k \in 1..Len(recs) :
                /\ j < k
                /\ recs[j].place_id = recs[k].place_id
                /\ \A i \in 1..(k - 1) : recs[i].place_name # recs[k].place_name
          /\ \E j, k \in 1..Len(recs) :
                /\ j < k
                /\ recs[j].place_name = recs[k].place_name
                /\ recs[j].place_id # recs[k].place_id

\* ------------------------------------------------------------ termination
\* The run under the scheduling of a sequential program: a step that can be
\* taken is taken.
SpecLive == Init /\ [][Next]_vars /\ WF_vars(Next)

RECURSIVE ChainReaches(_, _, _, _)
ChainReaches(p, s, v, k) ==
    IF v = s THEN TRUE
    ELSE IF k = 0 \/ v \notin DOMAIN p THEN FALSE
    ELSE ChainReaches(p, s, p[v], k - 1)

\* Every chain of predecessors reaches the source without repeating a node.
ChainsReachSource ==
    \A v \in DOMAIN prev : ChainReaches(prev, source, v, Cardinality(DOMAIN prev))

\* C10: the dijkstra loop always comes to its return, the backward walk of
\* reconstruct_path always comes to its return, and in the predecessor map
\* dijkstra returns every chain of predecessors reaches the source.
C10_QueryCompletes ==
    /\ (pc = "dijkstra") ~> (pc = "returned")
    /\ (pc = "reconstruct_path") ~> (pc \in {"render", "done"})
    /\ [](pc \in {"returned", "reconstruct_path"} => ChainsReachSource)

\* C10 witness: a walk under way over a graph with a zero-weight cycle and a
\* zero-weight self-loop.
C10_Witness ==
    /\ pc = "reconstruct_path"
    /\ Len(path) = 2
    /\ \E u \in NodeIds, v \in NodeIds :
          /\ u # v
          /\ \E i \in EntriesTo(graph.val, u, v) : graph.val[u][i][2] = 0
          /\ \E i \in EntriesTo(graph.val, u, u) : graph.val[u][i][2] = 0

====
